---- MODULE Spec2Model ----
(***************************************************************************)
(* Model of windows/runner/utils.cpp: the bounded scan safe_wcsnlen, the   *)
(* converter Utf8FromUtf16 and its caller GetCommandLineArguments.         *)
(*                                                                         *)
(* A wide-character pointer is a record [null, buf]: buf holds the         *)
(* elements the caller's allocation really has (actual_length = Len(buf)). *)
(* The code indexes from 0; TLA+ sequences from 1, so s[k] is buf[k + 1].  *)
(* A read at an index >= Len(buf) is a read past the allocation: it is     *)
(* undefined behaviour, modelled as a read of any wide character, chosen   *)
(* anew at every read.                                                     *)
(***************************************************************************)
EXTENDS Integers, Sequences, FiniteSets, TLC

(***************************************************************************)
(* Bounds and program constants.                                           *)
(***************************************************************************)

\* utils.cpp:41 sets kMaxUtf16Scan = 1U << 20.  The code only compares with it
\* and counts up to it, so the model keeps the name and scales the value down.
kMaxUtf16Scan == 4

\* Largest argc the argument enumerator yields in the model.
MaxArgc == 3

\* std::numeric_limits<int>::max() (utils.cpp:79).
INT_MAX == 2147483647

\* std::string::max_size() (utils.cpp:93); never below INT_MAX on any build of
\* the runner, and target_length is an int.
string_max_size == 2147483647

\* Arguments of the platform conversion primitive (utils.cpp:88, 100).
CP_UTF8 == 65001

WC_ERR_INVALID_CHARS == 128

\* Wide characters of the model: NUL, 'A' (1 byte in UTF-8), U+00E9 (2 bytes),
\* U+20AC (3 bytes), a high surrogate and a low surrogate (together U+1F600,
\* 4 bytes).
WChars == {0, 65, 233, 8364, 55357, 56832}

\* Longest caller allocation: one element more than the scan bound, so that
\* something can follow the first kMaxUtf16Scan elements.
BufMax == kMaxUtf16Scan + 1

\* The caller's allocations: every sequence of 1 to BufMax wide characters,
\* with or without a null element, and the sequence 'A','B','C',NUL.
Buffers ==
    UNION {[1..n -> WChars] : n \in 1..BufMax} \cup {<<65, 66, 67, 0>>}

nullptr == [null |-> TRUE, buf |-> <<>>]

Ptr(b) == [null |-> FALSE, buf |-> b]

Pointers == {nullptr} \cup {Ptr(b) : b \in Buffers}

Min(a, b) == IF a < b THEN a ELSE b

(***************************************************************************)
(* Memory reads.                                                           *)
(***************************************************************************)

\* The values a read of p[k] can give: the element when k is inside the
\* allocation, any wide character when it is past its end.
ReadValues(p, k) ==
    IF k < Len(p.buf) THEN {p.buf[k + 1]} ELSE WChars

\* The sequences a read of p[0 .. n-1] can give.
ReadViews(p, n) ==
    LET inside == Min(n, Len(p.buf))
    IN  {SubSeq(p.buf, 1, inside) \o past : past \in [1..(n - inside) -> WChars]}

(***************************************************************************)
(* The platform conversion primitive ::WideCharToMultiByte for CP_UTF8,    *)
(* by its contract: spec.md 4.2 (strict validation signals an error, the   *)
(* size query returns the required byte length) and the UTF-8 encoding.    *)
(***************************************************************************)

IsHighSurrogate(u) == 55296 <= u /\ u <= 56319

IsLowSurrogate(u) == 56320 <= u /\ u <= 57343

EncodeCodePoint(cp) ==
    IF cp < 128 THEN <<cp>>
    ELSE IF cp < 2048 THEN <<192 + (cp \div 64), 128 + (cp % 64)>>
    ELSE IF cp < 65536 THEN
        <<224 + (cp \div 4096), 128 + ((cp \div 64) % 64), 128 + (cp % 64)>>
    ELSE
        <<240 + (cp \div 262144), 128 + ((cp \div 4096) % 64),
          128 + ((cp \div 64) % 64), 128 + (cp % 64)>>

\* The conversion of the units src[k .. Len(src)]: [ok, bytes].  An unpaired
\* surrogate is an error under WC_ERR_INVALID_CHARS and U+FFFD without it.
RECURSIVE ConvertFrom(_, _, _)
ConvertFrom(src, k, dwFlags) ==
    IF k > Len(src) THEN [ok |-> TRUE, bytes |-> <<>>]
    ELSE IF IsHighSurrogate(src[k]) /\ k < Len(src) /\ IsLowSurrogate(src[k + 1])
    THEN LET rest == ConvertFrom(src, k + 2, dwFlags)
             cp == 65536 + (src[k] - 55296) * 1024 + (src[k + 1] - 56320)
         IN  [ok |-> rest.ok, bytes |-> EncodeCodePoint(cp) \o rest.bytes]
    ELSE IF IsHighSurrogate(src[k]) \/ IsLowSurrogate(src[k])
    THEN IF dwFlags = WC_ERR_INVALID_CHARS
         THEN [ok |-> FALSE, bytes |-> <<>>]
         ELSE LET rest == ConvertFrom(src, k + 1, dwFlags)
              IN  [ok |-> rest.ok, bytes |-> EncodeCodePoint(65533) \o rest.bytes]
    ELSE LET rest == ConvertFrom(src, k + 1, dwFlags)
         IN  [ok |-> rest.ok, bytes |-> EncodeCodePoint(src[k]) \o rest.bytes]

\* WideCharToMultiByte(CP_UTF8, dwFlags, src, cchWideChar, out, cbMultiByte,
\* nullptr, nullptr) on the cchWideChar units src: [ret, written].  ret is 0
\* on failure (no units, an invalid unit under strict validation, a buffer
\* too small); cbMultiByte = 0 is the size query, which writes nothing.
WideCharToMultiByte(dwFlags, src, cchWideChar, cbMultiByte) ==
    LET conv == ConvertFrom(SubSeq(src, 1, cchWideChar), 1, dwFlags)
    IN  IF cchWideChar = 0 \/ ~conv.ok THEN [ret |-> 0, written |-> <<>>]
        ELSE IF cbMultiByte = 0 THEN [ret |-> Len(conv.bytes), written |-> <<>>]
        ELSE IF Len(conv.bytes) > cbMultiByte THEN [ret |-> 0, written |-> <<>>]
        ELSE [ret |-> Len(conv.bytes), written |-> conv.bytes]

(***************************************************************************)
(* State.                                                                  *)
(***************************************************************************)
VARIABLES
    top,        \* the entry point of this run: "scan", "utf8" or "args"
    pc,         \* position inside safe_wcsnlen / Utf8FromUtf16
    s, max, i,  \* safe_wcsnlen: its parameters and its loop index
    utf16_string, wlen, input_length, target_length, utf8_string,
    converted_length,       \* Utf8FromUtf16: parameter and locals
    result,     \* the value Utf8FromUtf16 returned
    exit,       \* the return statement Utf8FromUtf16 left by
    reads,      \* the element indices read during the current call
    calls,      \* the invocations of the conversion primitive, in order
    resized,    \* whether the output buffer has been sized
    gpc, argc, argv, gi, command_line_arguments,
    freed,      \* how often LocalFree(argv) ran
    gresult     \* the value GetCommandLineArguments returned

scanVars == <<s, max, i>>

utf8Vars == <<utf16_string, wlen, input_length, target_length, utf8_string,
              converted_length, result, exit, calls, resized>>

argsVars == <<gpc, argc, argv, gi, command_line_arguments, freed, gresult>>

vars == <<top, pc, scanVars, utf8Vars, reads, argsVars>>

InitFrames ==
    /\ pc = "idle"
    /\ s = nullptr /\ max = 0 /\ i = 0
    /\ utf16_string = nullptr /\ wlen = 0 /\ input_length = 0
    /\ target_length = 0 /\ utf8_string = <<>> /\ converted_length = 0
    /\ result = <<>> /\ exit = "none"
    /\ reads = {} /\ calls = <<>> /\ resized = FALSE
    /\ gpc = "none" /\ argc = 0 /\ argv = [null |-> TRUE, arr |-> <<>>]
    /\ gi = 0 /\ command_line_arguments = <<>> /\ freed = 0 /\ gresult = <<>>

(***************************************************************************)
(* safe_wcsnlen(s, max)                                                    *)
(***************************************************************************)

\* A scan whose bound test is off by one.
InScanBound_inclusive(k, m) == k <= m

\* The loop's bound test, i < max.
InScanBound(k, m) == k < m

\* A scan that compares with the digit L'0' instead of L'\0'.
IsTerminator_digit(c) == c = 48

\* The loop's element test is s[i] != L'\0'.
IsTerminator(c) == c = 0

\* if (s == nullptr) return 0; size_t i = 0;
S_Enter ==
    /\ pc = "scan_entry"
    /\ i' = 0
    /\ pc' = IF s.null THEN "scan_ret" ELSE "scan_loop"
    /\ UNCHANGED <<top, s, max, utf8Vars, reads, argsVars>>

\* One evaluation of  i < max && s[i] != L'\0'  and, when it holds, ++i;
\* when it fails, return i.  The && reads s[i] only after i < max held.
S_Loop ==
    /\ pc = "scan_loop"
    /\ IF InScanBound(i, max)
       THEN \E c \in ReadValues(s, i) :
                /\ reads' = reads \cup {i}
                /\ IF IsTerminator(c)
                   THEN i' = i /\ pc' = "scan_ret"
                   ELSE i' = i + 1 /\ pc' = pc
       ELSE /\ reads' = reads
            /\ i' = i
            /\ pc' = "scan_ret"
    /\ UNCHANGED <<top, s, max, utf8Vars, argsVars>>

\* A call safe_wcsnlen(p, m) on its own.
ScanCall ==
    /\ top = "scan"
    /\ pc = "idle"
    /\ \E p \in Pointers, m \in 0..kMaxUtf16Scan :
           s' = p /\ max' = m
    /\ pc' = "scan_entry"
    /\ UNCHANGED <<top, i, utf8Vars, reads, argsVars>>

(***************************************************************************)
(* Utf8FromUtf16(utf16_string)                                             *)
(***************************************************************************)

\* A converter without the empty-length check.
IsEmptyLength_missing(n) == FALSE

\* if (wlen == 0)
IsEmptyLength(n) == n = 0

\* A converter without the scan-bound check.
IsUnterminatedLength_missing(n) == FALSE

\* if (wlen == kMaxUtf16Scan)
IsUnterminatedLength(n) == n = kMaxUtf16Scan

\* if (wlen > static_cast<size_t>(std::numeric_limits<int>::max()))
OverflowsInt(n) == n > INT_MAX

\* static_cast<int>(wlen) of a size_t: the value modulo 2^32, as a signed int.
static_cast_int(w) ==
    IF w <= INT_MAX THEN w ELSE (w - INT_MAX - 1) - INT_MAX - 1

\* Both passes converting without strict validation.
dwFlags_lossy(pass) == 0

\* Only the size query validating strictly.
dwFlags_mixed(pass) == IF pass = 1 THEN WC_ERR_INVALID_CHARS ELSE 0

\* The dwFlags argument of the first (1) and of the second (2) pass.
dwFlags(pass) == WC_ERR_INVALID_CHARS

\* if (target_length <= 0 || target_length > utf8_string.max_size())
SizeQueryFailed(t) == t <= 0 \/ t > string_max_size

\* A buffer sized with room for a terminator.
ResizeLength_plus_one(t) == t + 1

\* utf8_string.resize(static_cast<size_t>(target_length)): the new size.
ResizeLength(t) == t

\* A return of Utf8FromUtf16: the value and the return statement taken.
Return(value, by) ==
    /\ result' = value
    /\ exit' = by
    /\ pc' = "ret"

\* Entry with parameter p: every local starts afresh.
Enter(p) ==
    /\ utf16_string' = p
    /\ wlen' = 0 /\ input_length' = 0 /\ target_length' = 0
    /\ utf8_string' = <<>> /\ converted_length' = 0
    /\ result' = <<>> /\ exit' = "none"
    /\ reads' = {} /\ calls' = <<>> /\ resized' = FALSE
    /\ pc' = "entry"

\* A call Utf8FromUtf16(p) on its own.
Utf8Call ==
    /\ top = "utf8"
    /\ pc = "idle"
    /\ \E p \in Pointers : Enter(p)
    /\ UNCHANGED <<top, scanVars, argsVars>>

\* if (utf16_string == nullptr) return {};  then the call
\* safe_wcsnlen(utf16_string, kMaxUtf16Scan).
U_Entry ==
    /\ pc = "entry"
    /\ IF utf16_string.null
       THEN /\ Return(<<>>, "absent")
            /\ UNCHANGED scanVars
       ELSE /\ s' = utf16_string
            /\ max' = kMaxUtf16Scan
            /\ i' = i
            /\ pc' = "scan_entry"
            /\ UNCHANGED <<result, exit>>
    /\ UNCHANGED <<top, utf16_string, wlen, input_length, target_length,
                   utf8_string, converted_length, calls, resized, reads,
                   argsVars>>

\* const size_t wlen = safe_wcsnlen(...), the three length checks and
\* const int input_length = static_cast<int>(wlen).
U_CheckLen ==
    /\ top # "scan"
    /\ pc = "scan_ret"
    /\ wlen' = i
    /\ IF IsEmptyLength(i) THEN
           Return(<<>>, "empty") /\ UNCHANGED input_length
       ELSE IF IsUnterminatedLength(i) THEN
           Return(<<>>, "unterminated") /\ UNCHANGED input_length
       ELSE IF OverflowsInt(i) THEN
           Return(<<>>, "overflow") /\ UNCHANGED input_length
       ELSE /\ input_length' = static_cast_int(i)
            /\ pc' = "first_pass"
            /\ UNCHANGED <<result, exit>>
    /\ UNCHANGED <<top, scanVars, utf16_string, target_length, utf8_string,
                   converted_length, calls, resized, reads, argsVars>>

\* First pass (size query), std::string utf8_string, and the check of
\* target_length.
U_FirstPass ==
    /\ pc = "first_pass"
    /\ \E src \in ReadViews(utf16_string, input_length) :
         LET r == WideCharToMultiByte(dwFlags(1), src, input_length, 0)
         IN  /\ target_length' = r.ret
             /\ IF SizeQueryFailed(r.ret)
                THEN Return(<<>>, "size_query")
                ELSE pc' = "resize" /\ UNCHANGED <<result, exit>>
    /\ utf8_string' = <<>>
    /\ reads' = reads \cup 0..(input_length - 1)
    /\ calls' = Append(calls, [n |-> input_length, flags |-> dwFlags(1),
                               cb |-> 0])
    /\ UNCHANGED <<top, scanVars, utf16_string, wlen, input_length,
                   converted_length, resized, argsVars>>

\* utf8_string.resize(...): target_length value-initialised bytes.
U_Resize ==
    /\ pc = "resize"
    /\ utf8_string' = [k \in 1..ResizeLength(target_length) |-> 0]
    /\ resized' = TRUE
    /\ pc' = "second_pass"
    /\ UNCHANGED <<top, scanVars, utf16_string, wlen, input_length,
                   target_length, converted_length, result, exit, calls,
                   reads, argsVars>>

\* Second pass into utf8_string.data(), the check of converted_length and
\* return utf8_string.
U_SecondPass ==
    /\ pc = "second_pass"
    /\ \E src \in ReadViews(utf16_string, input_length) :
         LET r == WideCharToMultiByte(dwFlags(2), src, input_length,
                                      target_length)
             filled == r.written \o
                       SubSeq(utf8_string, Len(r.written) + 1, Len(utf8_string))
         IN  /\ converted_length' = r.ret
             /\ utf8_string' = filled
             /\ IF r.ret = 0
                THEN Return(<<>>, "conversion")
                ELSE Return(filled, "ok")
    /\ reads' = reads \cup 0..(input_length - 1)
    /\ calls' = Append(calls, [n |-> input_length, flags |-> dwFlags(2),
                               cb |-> target_length])
    /\ UNCHANGED <<top, scanVars, utf16_string, wlen, input_length,
                   target_length, resized, argsVars>>

(***************************************************************************)
(* GetCommandLineArguments()                                               *)
(***************************************************************************)

\* The arguments the enumerator yields in the model, each null-terminated:
\* "", "A", U+00E9 U+20AC, 'A' then a lone high surrogate, U+1F600, and one
\* of kMaxUtf16Scan characters.
ArgStrings ==
    {<<0>>, <<65, 0>>, <<233, 8364, 0>>, <<65, 55357, 0>>, <<55357, 56832, 0>>,
     [k \in 1..kMaxUtf16Scan |-> 65] \o <<0>>}

\* What ::CommandLineToArgvW can give: no array, or argc entries.
CommandLineToArgvW ==
    {[null |-> TRUE, argc |-> 0, arr |-> <<>>]} \cup
    UNION {{[null |-> FALSE, argc |-> n, arr |-> a] : a \in [1..n -> ArgStrings]} :
              n \in 0..MaxArgc}

\* A loop that starts at the binary name.
FirstArgIndex_zero == 1 - 1

\* The loop starts at 1: argv[0] is the binary name.
FirstArgIndex == 1

\* A call GetCommandLineArguments() on its own.
ArgsCall ==
    /\ top = "args"
    /\ gpc = "none"
    /\ gpc' = "start"
    /\ UNCHANGED <<top, pc, scanVars, utf8Vars, reads, argc, argv, gi,
                   command_line_arguments, freed, gresult>>

\* wchar_t **argv = ::CommandLineToArgvW(::GetCommandLineW(), &argc);
\* if (argv == nullptr) return {};  command_line_arguments;  int i = 1.
G_Start ==
    /\ gpc = "start"
    /\ \E r \in CommandLineToArgvW :
           /\ argv' = [null |-> r.null, arr |-> r.arr]
           /\ argc' = r.argc
           /\ IF r.null
              THEN gpc' = "done" /\ gresult' = <<>> /\ gi' = gi
              ELSE gpc' = "loop" /\ gresult' = gresult /\ gi' = FirstArgIndex
    /\ command_line_arguments' = <<>>
    /\ UNCHANGED <<top, pc, scanVars, utf8Vars, reads, freed>>

\* The loop test i < argc; when it holds, the call Utf8FromUtf16(argv[i]).
G_Loop ==
    /\ gpc = "loop"
    /\ IF gi < argc
       THEN /\ Enter(Ptr(argv.arr[gi + 1]))
            /\ gpc' = "call"
       ELSE /\ gpc' = "free"
            /\ UNCHANGED <<pc, utf8Vars, reads>>
    /\ UNCHANGED <<top, scanVars, argc, argv, gi, command_line_arguments,
                   freed, gresult>>

\* command_line_arguments.push_back(<the value returned>); i++.
G_PushBack ==
    /\ gpc = "call"
    /\ pc = "ret"
    /\ command_line_arguments' = Append(command_line_arguments, result)
    /\ gi' = gi + 1
    /\ gpc' = "loop"
    /\ pc' = "idle"
    /\ UNCHANGED <<top, scanVars, utf8Vars, reads, argc, argv, freed, gresult>>

\* ::LocalFree(argv); return command_line_arguments;
G_Free ==
    /\ gpc = "free"
    /\ freed' = freed + 1
    /\ gresult' = command_line_arguments
    /\ gpc' = "done"
    /\ UNCHANGED <<top, pc, scanVars, utf8Vars, reads, argc, argv, gi,
                   command_line_arguments>>

(***************************************************************************)
(* Specifications: one per entry point.                                    *)
(***************************************************************************)

ScanSteps == S_Enter \/ S_Loop

Utf8Steps == U_Entry \/ U_CheckLen \/ U_FirstPass \/ U_Resize \/ U_SecondPass

Init == top = "utf8" /\ InitFrames

Next == Utf8Call \/ Utf8Steps \/ ScanSteps

Spec == Init /\ [][Next]_vars

InitScan == top = "scan" /\ InitFrames

NextScan == ScanCall \/ ScanSteps

SpecScan == InitScan /\ [][NextScan]_vars

InitArgs == top = "args" /\ InitFrames

NextArgs ==
    ArgsCall \/ G_Start \/ G_Loop \/ G_PushBack \/ G_Free \/ Utf8Steps \/ ScanSteps

SpecArgs == InitArgs /\ [][NextArgs]_vars

(***************************************************************************)
(* Reference definitions for the properties: the terminator's position,    *)
(* and the UTF-8 encoding of the model's characters as known byte values.  *)
(***************************************************************************)

HasNull(b) == \E k \in 1..Len(b) : b[k] = 0

\* The 0-based index of the first null element; Len(b) when there is none.
FirstNull(b) ==
    IF HasNull(b)
    THEN CHOOSE n \in 0..(Len(b) - 1) :
             b[n + 1] = 0 /\ \A k \in 1..n : b[k] # 0
    ELSE Len(b)

Prefix(b) == SubSeq(b, 1, FirstNull(b))

NoNullWithinBound(b) ==
    Len(b) >= kMaxUtf16Scan /\ \A k \in 1..kMaxUtf16Scan : b[k] # 0

RECURSIVE RefValid(_)
RefValid(u) ==
    IF u = <<>> THEN TRUE
    ELSE IF Len(u) >= 2 /\ u[1] = 55357 /\ u[2] = 56832
    THEN RefValid(SubSeq(u, 3, Len(u)))
    ELSE u[1] \notin {55357, 56832} /\ RefValid(Tail(u))

RefChar(c) ==
    CASE c = 65 -> <<65>>
      [] c = 66 -> <<66>>
      [] c = 67 -> <<67>>
      [] c = 233 -> <<195, 169>>
      [] c = 8364 -> <<226, 130, 172>>
      [] OTHER -> <<>>

RECURSIVE RefEncode(_)
RefEncode(u) ==
    IF u = <<>> THEN <<>>
    ELSE IF Len(u) >= 2 /\ u[1] = 55357 /\ u[2] = 56832
    THEN <<240, 159, 152, 128>> \o RefEncode(SubSeq(u, 3, Len(u)))
    ELSE RefChar(u[1]) \o RefEncode(Tail(u))

\* What the converter is to return for a null-terminated argument.
RefUtf8FromUtf16(b) ==
    IF FirstNull(b) = 0 \/ FirstNull(b) >= kMaxUtf16Scan \/ ~RefValid(Prefix(b))
    THEN <<>>
    ELSE RefEncode(Prefix(b))

Returned == pc = "ret"

Present == ~utf16_string.null

(***************************************************************************)
(* Properties.                                                             *)
(***************************************************************************)

\* C1: during a call of Utf8FromUtf16 every element index read, by the
\* bounded scan and by both passes of the conversion primitive, is strictly
\* less than kMaxUtf16Scan, whether or not the buffer is terminated.
C1_ReadsBelowScanBound ==
    \A k \in reads : k < kMaxUtf16Scan

\* C1 witness: a call on a buffer without terminator has returned after
\* reading every index up to kMaxUtf16Scan - 1.
C1_Witness ==
    /\ Returned /\ Present
    /\ ~HasNull(utf16_string.buf)
    /\ reads = 0..(kMaxUtf16Scan - 1)

\* C2: no call reads an element outside the region the caller guarantees,
\* the first min(actual_length, kMaxUtf16Scan) elements of the buffer.
C2_NoReadOutsideValidRegion ==
    \A k \in reads : k < Min(Len(utf16_string.buf), kMaxUtf16Scan)

\* C3: for a buffer whose first null element is at index L < kMaxUtf16Scan
\* and whose first L elements are valid, the returned bytes are exactly the
\* UTF-8 encoding of those L elements: no trailing null byte, nothing from
\* index L on; 'A','B','C',NUL gives 0x41,0x42,0x43.
C3_ValidTerminatedInputIsEncoded ==
    (/\ Returned /\ Present
     /\ HasNull(utf16_string.buf)
     /\ FirstNull(utf16_string.buf) < kMaxUtf16Scan
     /\ RefValid(Prefix(utf16_string.buf)))
    => /\ result = RefEncode(Prefix(utf16_string.buf))
       /\ utf16_string.buf = <<65, 66, 67, 0>> => result = <<65, 66, 67>>

\* C3 witness: the call on 'A','B','C',NUL has returned its three bytes.
C3_Witness ==
    /\ Returned
    /\ utf16_string = Ptr(<<65, 66, 67, 0>>)
    /\ result = <<65, 66, 67>>

\* C4: for an input whose first kMaxUtf16Scan elements are all non-null the
\* conversion primitive is never invoked and the result is empty, whatever
\* follows those elements.
C4_UnterminatedInputIsRejected ==
    (Present /\ NoNullWithinBound(utf16_string.buf))
    => /\ calls = <<>>
       /\ Returned => result = <<>>

\* C4 witness: a call has returned on a buffer of kMaxUtf16Scan non-null
\* elements followed by one more element.
C4_Witness ==
    /\ Returned /\ Present
    /\ NoNullWithinBound(utf16_string.buf)
    /\ Len(utf16_string.buf) = kMaxUtf16Scan + 1
    /\ exit = "unterminated"

\* C5: for a null-terminated input of length L < kMaxUtf16Scan holding an
\* unpaired surrogate the result is empty: no placeholder, no valid prefix.
C5_InvalidInputIsRejected ==
    (/\ Returned /\ Present
     /\ HasNull(utf16_string.buf)
     /\ FirstNull(utf16_string.buf) < kMaxUtf16Scan
     /\ ~RefValid(Prefix(utf16_string.buf)))
    => result = <<>>

\* C5 witness: 'A' followed by a lone high surrogate and NUL was rejected
\* by the size query.
C5_Witness ==
    /\ Returned
    /\ Len(utf16_string.buf) >= 3
    /\ SubSeq(utf16_string.buf, 1, 3) = <<65, 55357, 0>>
    /\ exit = "size_query"

\* C6: an absent input returns empty without reading any element, and an
\* input whose first element is null returns empty; in both cases the
\* conversion primitive is not invoked and no output buffer is sized.
C6_EarlyExits ==
    /\ (pc # "idle" /\ utf16_string.null)
       => /\ reads = {} /\ calls = <<>> /\ ~resized
          /\ Returned => result = <<>>
    /\ (Present /\ Len(utf16_string.buf) >= 1 /\ utf16_string.buf[1] = 0)
       => /\ calls = <<>> /\ ~resized
          /\ Returned => (result = <<>> /\ wlen = 0)

\* C6 witness: the call on a single NUL element has returned by the
\* empty-length check.
C6_Witness ==
    /\ Returned
    /\ utf16_string = Ptr(<<0>>)
    /\ exit = "empty"

\* C7: safe_wcsnlen(s, max) returns 0 for an absent s; otherwise it returns
\* n = min(index of the first null element, max): 0 <= n <= max, every
\* element below n is non-null, and the element at n is null when n < max.
\* The loop index never passes max, so the loop ends within max iterations.
C7_ScanResult ==
    /\ 0 <= i /\ i <= max
    /\ pc = "scan_ret" =>
         IF s.null THEN i = 0 /\ reads = {}
         ELSE /\ \A k \in 1..Min(i, Len(s.buf)) : s.buf[k] # 0
              /\ (i < max /\ i < Len(s.buf)) => s.buf[i + 1] = 0
              /\ (HasNull(s.buf) \/ Len(s.buf) >= max)
                 => i = Min(FirstNull(s.buf), max)

\* C7 witness: a scan has returned the index of a terminator that lies
\* after the first element and before max.
C7_Witness ==
    /\ pc = "scan_ret" /\ ~s.null
    /\ HasNull(s.buf)
    /\ 0 < i /\ i < max
    /\ i = FirstNull(s.buf)

\* C8: whenever Utf8FromUtf16 returns a non-empty result, its length is the
\* number of bytes the second pass reported as written (converted_length).
C8_ResultSizedToBytesWritten ==
    (Returned /\ result # <<>>) => Len(result) = converted_length

\* C9: every invocation of the conversion primitive gets an input length n
\* with 1 <= n <= kMaxUtf16Scan - 1 <= INT_MAX, equal to the scanned length;
\* both passes get the same n and the same strict-validation flag; the
\* int-overflow guard is never the check that returns.
C9_PrimitiveArguments ==
    /\ \A k \in 1..Len(calls) :
           /\ 1 <= calls[k].n /\ calls[k].n <= kMaxUtf16Scan - 1
           /\ calls[k].n <= INT_MAX
           /\ calls[k].n = wlen
           /\ calls[k].flags = WC_ERR_INVALID_CHARS
    /\ Len(calls) <= 2
    /\ Len(calls) = 2 =>
           calls[1].n = calls[2].n /\ calls[1].flags = calls[2].flags
    /\ exit # "overflow"

\* C9 witness: both passes ran on the longest input the checks let through.
C9_Witness ==
    /\ Len(calls) = 2
    /\ calls[2].n = kMaxUtf16Scan - 1
    /\ calls[2].cb > 0

\* C10: GetCommandLineArguments returns an empty list when the enumerator
\* yields no array; otherwise max(argc - 1, 0) entries, entry k being the
\* conversion of argv[k + 1] (argv[0] skipped, order kept, a rejected
\* argument an empty string in its place), and argv is freed exactly once,
\* after the last conversion.
C10_CommandLineArguments ==
    LET expected == IF argc >= 1 THEN argc - 1 ELSE 0
    IN  /\ freed <= 1
        /\ freed = 1 =>
               gpc = "done" /\ Len(command_line_arguments) = expected
        /\ gpc = "done" =>
               IF argv.null THEN gresult = <<>>
               ELSE /\ freed = 1
                    /\ Len(gresult) = expected
                    /\ \A k \in 1..Len(gresult) :
                           gresult[k] = RefUtf8FromUtf16(argv.arr[k + 1])

\* C10 witness: a run with argc = 3 (two arguments after the binary name) has
\* returned; the first was rejected and is an empty string, the second
\* was converted.
C10_Witness ==
    /\ gpc = "done" /\ ~argv.null
    /\ argc = 3
    /\ argv.arr[2] = <<65, 55357, 0>> /\ gresult[1] = <<>>
    /\ argv.arr[3] = <<233, 8364, 0>> /\ gresult[2] = <<195, 169, 226, 130, 172>>

====
